---- MODULE Spec2Model ----
(***************************************************************************)
(* AbstractRepository (src/src/repository/AbstractRepository.ts): the      *)
(* resolution of a custom repository's managed entity against the          *)
(* metadata args storage, and the delegation to the entity manager.        *)
(*                                                                         *)
(* JavaScript runs every method of the class to completion, so one call is *)
(* one action.  Each task keeps the record of the last call it made: the   *)
(* operation, the receiver, the arguments, the outcome (a returned value   *)
(* or a thrown error), the number of metadata-storage lookups and the      *)
(* ordered list of calls made on the entity manager and on its handles.    *)
(***************************************************************************)
EXTENDS Integers, Sequences, FiniteSets, TLC

VARIABLES entityRepositories, last

vars == <<entityRepositories, last>>

-----------------------------------------------------------------------------
(* Bounds of the checked universe.                                         *)

\* instances created of each custom repository class (Spec)
NumInstances == 1

\* registrations in the metadata args storage
MaxRegs == 3

\* instances created of each custom repository class (SpecTasks)
NumTaskInstances == 2

MainTask == "t1"

Tasks == {"t1", "t2"}

\* the empty alias is the one the query builder factory rejects
Aliases == {"p", "post", ""}

TaskAliases == {"post"}

-----------------------------------------------------------------------------
(* JavaScript values.  A class is a function value; an instance is an      *)
(* object whose constructor is its runtime class.                          *)

Fn(c) == [kind |-> "fn", name |-> c, id |-> 0]

Obj(c, i) == [kind |-> "obj", name |-> c, id |-> i]

Str(s) == [kind |-> "str", name |-> s, id |-> 0]

Undefined == [kind |-> "undefined", name |-> "", id |-> 0]

\* customRepository instanceof Function
InstanceOfFunction(v) == v.kind = "fn"

\* (customRepository as any).constructor / this.constructor
Constructor(v) == Fn(v.name)

\* mutant: the check written as target === null
Not_nullOnly(v) == v.kind = "null"

\* !target : undefined and the empty string are falsy, functions and
\* non-empty strings are truthy
Not(v) == v.kind = "undefined" \/ (v.kind = "str" /\ v.name = "")

\* The custom repository classes of the universe.  SubPostRepo extends
\* CustomPostRepo; no code of AbstractRepository reads the superclass.
RepositoryClasses == {"CustomPostRepo", "SubPostRepo", "CategoryRepo"}

SuperClass(c) == IF c = "SubPostRepo" THEN "CustomPostRepo" ELSE ""

Instances == {Obj(c, i) : c \in RepositoryClasses, i \in 1..NumInstances}

TaskClasses == {"CustomPostRepo", "CategoryRepo"}

TaskInstances == {Obj(c, i) : c \in TaskClasses, i \in 1..NumTaskInstances}

\* Post is an entity (src/unnamed/part_000), Counters is embedded in it and
\* is no entity of its own, Category is an entity with tree metadata.
EntityClasses == {"Post", "Category", "Counters"}

TaskEntityClasses == {"Post"}

\* the `entity` a registration may carry: Function | string | undefined
EntityReferences == {Fn("Post"), Str("Category"), Str(""), Undefined}

-----------------------------------------------------------------------------
(* Outcomes of a call.                                                     *)

Return(v) == [tag |-> "return", err |-> "", val |-> v]

Throw(e, v) == [tag |-> "throw", err |-> e, val |-> v]

Threw(o) == o.tag = "throw"

\* what one operation did: its outcome, the lookups it made in the
\* metadata args storage and the calls it made downstream, in order
Did(o, n, l) == [out |-> o, lookups |-> n, log |-> l]

Invocation(f, a) == [fn |-> f, arg |-> a]

-----------------------------------------------------------------------------
(* The entity manager and its handles (external collaborators).            *)

HasMetadata(target) == target \in {Fn("Post"), Fn("Category"), Str("Category")}

HasTreeMetadata(target) == target \in {Fn("Category"), Str("Category")}

manager_getRepository(target) ==
    IF HasMetadata(target)
    THEN Return([kind |-> "Repository", target |-> target])
    ELSE Throw("RepositoryNotFoundError", target)

manager_getTreeRepository(target) ==
    IF ~HasMetadata(target) THEN Throw("RepositoryNotFoundError", target)
    ELSE IF ~HasTreeMetadata(target) THEN Throw("RepositoryNotTreeError", target)
    ELSE Return([kind |-> "TreeRepository", target |-> target])

handle_createQueryBuilder(handle, alias) ==
    IF alias = ""
    THEN Throw("QueryBuilderError", handle)
    ELSE Return([kind |-> "QueryBuilder", target |-> handle.target, alias |-> alias])

-----------------------------------------------------------------------------
(* AbstractRepository                                                      *)

\* Array.prototype.find: the index of the first element whose target is
\* strictly equal to key, 0 when there is none
RECURSIVE FindFrom(_, _, _)
FindFrom(store, key, i) ==
    IF i > Len(store) THEN 0
    ELSE IF store[i].target = key THEN i
    ELSE FindFrom(store, key, i + 1)

\* mutant: a class without registration falls back on its superclass
find_inherited(store, key) ==
    LET i == FindFrom(store, key, 1)
    IN  IF i # 0 THEN i ELSE FindFrom(store, Fn(SuperClass(key.name)), 1)

find(store, key) == FindFrom(store, key, 1)

\* mutant: the instance is compared itself, its constructor is not taken
LookupKey_noConstructor(customRepository) == customRepository

\* the identity a registration is matched against
LookupKey(customRepository) ==
    IF InstanceOfFunction(customRepository)
    THEN customRepository
    ELSE Constructor(customRepository)

\* mutant: the target resolved by an earlier call is kept and served again
getCustomRepositoryTarget_cached(customRepository) ==
    LET cached == {last[t].out.val : t \in {u \in Tasks :
                        /\ last[u].op = "getCustomRepositoryTarget"
                        /\ last[u].out.tag = "return"}}
        i == find(entityRepositories, LookupKey(customRepository))
    IN  IF cached # {} THEN Return(CHOOSE v \in cached : TRUE)
        ELSE IF i = 0
        THEN Throw("CustomRepositoryNotFoundError", customRepository)
        ELSE Return(entityRepositories[i].entity)

\* mutant: a missing registration is reported as "manages no entity"
getCustomRepositoryTarget_lenient(customRepository) ==
    LET i == find(entityRepositories, LookupKey(customRepository))
    IN  IF i = 0
        THEN Return(Undefined)
        ELSE Return(entityRepositories[i].entity)

getCustomRepositoryTarget(customRepository) ==
    LET i == find(entityRepositories, LookupKey(customRepository))
    IN  IF i = 0
        THEN Throw("CustomRepositoryNotFoundError", customRepository)
        ELSE Return(entityRepositories[i].entity)

\* mutant: the manager is asked before the target is tested
repository_eager(this) ==
    LET target == getCustomRepositoryTarget(this)
    IN  IF Threw(target) THEN Did(target, 1, <<>>)
        ELSE IF Not(target.val)
        THEN Did(Throw("CustomRepositoryDoesNotHaveEntityError", Constructor(this)), 1,
                 <<Invocation("getRepository", target.val)>>)
        ELSE Did(manager_getRepository(target.val), 1,
                 <<Invocation("getRepository", target.val)>>)

repository(this) ==
    LET target == getCustomRepositoryTarget(this)
    IN  IF Threw(target) THEN Did(target, 1, <<>>)
        ELSE IF Not(target.val)
        THEN Did(Throw("CustomRepositoryDoesNotHaveEntityError", Constructor(this)), 1, <<>>)
        ELSE Did(manager_getRepository(target.val), 1,
                 <<Invocation("getRepository", target.val)>>)

\* mutant: the flat factory is called in place of the tree factory
treeRepository_flat(this) ==
    LET target == getCustomRepositoryTarget(this)
    IN  IF Threw(target) THEN Did(target, 1, <<>>)
        ELSE IF Not(target.val)
        THEN Did(Throw("CustomRepositoryDoesNotHaveEntityError", Constructor(this)), 1, <<>>)
        ELSE Did(manager_getRepository(target.val), 1,
                 <<Invocation("getRepository", target.val)>>)

treeRepository(this) ==
    LET target == getCustomRepositoryTarget(this)
    IN  IF Threw(target) THEN Did(target, 1, <<>>)
        ELSE IF Not(target.val)
        THEN Did(Throw("CustomRepositoryDoesNotHaveEntityError", Constructor(this)), 1, <<>>)
        ELSE Did(manager_getTreeRepository(target.val), 1,
                 <<Invocation("getTreeRepository", target.val)>>)

\* manager.getRepository(entity).createQueryBuilder(alias)
QueryBuilderOf(entity, alias, n) ==
    LET handle == manager_getRepository(entity)
    IN  IF Threw(handle)
        THEN Did(handle, n, <<Invocation("getRepository", entity)>>)
        ELSE Did(handle_createQueryBuilder(handle.val, alias), n,
                 <<Invocation("getRepository", entity),
                   Invocation("createQueryBuilder", Str(alias))>>)

\* mutant: the lookup is made with the instance, as the accessors make it
createQueryBuilder_withThis(this, alias) ==
    LET target == getCustomRepositoryTarget(this)
    IN  IF Threw(target) THEN Did(target, 1, <<>>)
        ELSE IF Not(target.val)
        THEN Did(Throw("CustomRepositoryDoesNotHaveEntityError", Constructor(this)), 1, <<>>)
        ELSE QueryBuilderOf(target.val, alias, 1)

createQueryBuilder(this, alias) ==
    LET target == getCustomRepositoryTarget(Constructor(this))
    IN  IF Threw(target) THEN Did(target, 1, <<>>)
        ELSE IF Not(target.val)
        THEN Did(Throw("CustomRepositoryDoesNotHaveEntityError", Constructor(this)), 1, <<>>)
        ELSE QueryBuilderOf(target.val, alias, 1)

\* mutant: the caller's own registration is looked up first
getRepositoryFor_resolving(this, entity) ==
    LET target == getCustomRepositoryTarget(this)
    IN  IF Threw(target) THEN Did(target, 1, <<>>)
        ELSE Did(manager_getRepository(entity), 1, <<Invocation("getRepository", entity)>>)

getRepositoryFor(this, entity) ==
    Did(manager_getRepository(entity), 0, <<Invocation("getRepository", entity)>>)

\* mutant: the hierarchy is checked here and the failure raised here
getTreeRepositoryFor_checked(this, entity) ==
    IF ~HasTreeMetadata(entity)
    THEN Did(Throw("RepositoryNotTreeError", Constructor(this)), 0, <<>>)
    ELSE Did(manager_getTreeRepository(entity), 0, <<Invocation("getTreeRepository", entity)>>)

getTreeRepositoryFor(this, entity) ==
    Did(manager_getTreeRepository(entity), 0, <<Invocation("getTreeRepository", entity)>>)

createQueryBuilderFor(this, entity, alias) ==
    LET r == getRepositoryFor(this, entity)
    IN  IF Threw(r.out) THEN r
        ELSE Did(handle_createQueryBuilder(r.out.val, alias), r.lookups,
                 Append(r.log, Invocation("createQueryBuilder", Str(alias))))

-----------------------------------------------------------------------------
(* The calls.                                                              *)

NoCall ==
    [op |-> "none", self |-> Undefined, entity |-> Undefined, alias |-> "",
     out |-> Return(Undefined), lookups |-> 0, log |-> <<>>]

Call(op, this, entity, alias, d) ==
    [op |-> op, self |-> this, entity |-> entity, alias |-> alias,
     out |-> d.out, lookups |-> d.lookups, log |-> d.log]

\* the records once task t has completed the call c
Recorded(t, c) == [last EXCEPT ![t] = c]

\* getCustomRepositoryTarget called with an instance or with a class
Resolve(t, I) ==
    \E this \in I :
      \E ref \in {this, Constructor(this)} :
        /\ last' = Recorded(t, Call("getCustomRepositoryTarget", ref, Undefined, "",
                                    Did(getCustomRepositoryTarget(ref), 1, <<>>)))
        /\ UNCHANGED entityRepositories

GetRepository(t, I) ==
    \E this \in I :
        /\ last' = Recorded(t, Call("repository", this, Undefined, "", repository(this)))
        /\ UNCHANGED entityRepositories

GetTreeRepository(t, I) ==
    \E this \in I :
        /\ last' = Recorded(t, Call("treeRepository", this, Undefined, "", treeRepository(this)))
        /\ UNCHANGED entityRepositories

CreateQueryBuilder(t, I, A) ==
    \E this \in I, alias \in A :
        /\ last' = Recorded(t, Call("createQueryBuilder", this, Undefined, alias,
                                    createQueryBuilder(this, alias)))
        /\ UNCHANGED entityRepositories

GetRepositoryFor(t, I, E) ==
    \E this \in I, e \in E :
        /\ last' = Recorded(t, Call("getRepositoryFor", this, Fn(e), "",
                                    getRepositoryFor(this, Fn(e))))
        /\ UNCHANGED entityRepositories

GetTreeRepositoryFor(t, I, E) ==
    \E this \in I, e \in E :
        /\ last' = Recorded(t, Call("getTreeRepositoryFor", this, Fn(e), "",
                                    getTreeRepositoryFor(this, Fn(e))))
        /\ UNCHANGED entityRepositories

CreateQueryBuilderFor(t, I, E, A) ==
    \E this \in I, e \in E, alias \in A :
        /\ last' = Recorded(t, Call("createQueryBuilderFor", this, Fn(e), alias,
                                    createQueryBuilderFor(this, Fn(e), alias)))
        /\ UNCHANGED entityRepositories

-----------------------------------------------------------------------------
(* The metadata args storage after the load phase: a list of               *)
(* registrations, at most one per custom repository class, in any order.   *)

RECURSIVE SeqsUpTo(_, _)
SeqsUpTo(S, n) ==
    IF n = 0 THEN {<<>>}
    ELSE LET shorter == SeqsUpTo(S, n - 1)
         IN  shorter \cup {Append(s, x) : s \in {q \in shorter : Len(q) = n - 1}, x \in S}

Registrations(classes) == [target : {Fn(c) : c \in classes}, entity : EntityReferences]

OnePerClass(store) ==
    \A i, j \in 1..Len(store) : store[i].target = store[j].target => i = j

Stores(classes, n) == {s \in SeqsUpTo(Registrations(classes), n) : OnePerClass(s)}

\* one caller, every class, every argument
Init ==
    /\ entityRepositories \in Stores(RepositoryClasses, MaxRegs)
    /\ last = [t \in Tasks |-> NoCall]

Next ==
    \/ Resolve(MainTask, Instances)
    \/ GetRepository(MainTask, Instances)
    \/ GetTreeRepository(MainTask, Instances)
    \/ CreateQueryBuilder(MainTask, Instances, Aliases)
    \/ GetRepositoryFor(MainTask, Instances, EntityClasses)
    \/ GetTreeRepositoryFor(MainTask, Instances, EntityClasses)
    \/ CreateQueryBuilderFor(MainTask, Instances, EntityClasses, Aliases)

Spec == Init /\ [][Next]_vars

\* several tasks calling in any order, on shared and on distinct instances
InitTasks ==
    /\ entityRepositories \in Stores(TaskClasses, MaxRegs)
    /\ last = [t \in Tasks |-> NoCall]

NextTasks ==
    \E t \in Tasks :
        \/ Resolve(t, TaskInstances)
        \/ GetRepository(t, TaskInstances)
        \/ GetTreeRepository(t, TaskInstances)
        \/ CreateQueryBuilder(t, TaskInstances, TaskAliases)
        \/ GetRepositoryFor(t, TaskInstances, TaskEntityClasses)
        \/ GetTreeRepositoryFor(t, TaskInstances, TaskEntityClasses)
        \/ CreateQueryBuilderFor(t, TaskInstances, TaskEntityClasses, TaskAliases)

SpecTasks == InitTasks /\ [][NextTasks]_vars

-----------------------------------------------------------------------------
(* Vocabulary of the properties: what the metadata args storage holds for  *)
(* a class, read off the list as a set of registrations.                   *)

SelfOps == {"repository", "treeRepository", "createQueryBuilder"}

ForOps == {"getRepositoryFor", "getTreeRepositoryFor", "createQueryBuilderFor"}

\* the class identity a reference stands for: the class itself, or the
\* runtime class of an instance
ClassIdentity(ref) == IF ref.kind = "fn" THEN ref ELSE Fn(ref.name)

RegistrationsOf(ref) ==
    {entityRepositories[i] : i \in {j \in 1..Len(entityRepositories) :
                                      entityRepositories[j].target = ClassIdentity(ref)}}

Registered(ref) == RegistrationsOf(ref) # {}

EntitiesOf(ref) == {r.entity : r \in RegistrationsOf(ref)}

NotFoundError(o) == o.tag = "throw" /\ o.err = "CustomRepositoryNotFoundError"

NoEntityError(o) == o.tag = "throw" /\ o.err = "CustomRepositoryDoesNotHaveEntityError"

\* C1: when the class of the reference has a registration with a concrete
\* entity reference E, getCustomRepositoryTarget called with the class or
\* with an instance of it returns exactly E, whatever else is registered.
C1_ResolveReturnsEntity ==
    \A t \in Tasks :
        LET c == last[t]
        IN  c.op = "getCustomRepositoryTarget" =>
                \A e \in EntitiesOf(c.self) : e # Undefined => c.out = Return(e)

\* C1 witness: an instance resolved to Post while the registration of its
\* class is not the first of several registrations.
C1_Witness ==
    \E t \in Tasks :
        /\ last[t].op = "getCustomRepositoryTarget"
        /\ last[t].self.kind = "obj"
        /\ Len(entityRepositories) >= 2
        /\ entityRepositories[1].target # ClassIdentity(last[t].self)
        /\ entityRepositories[1].entity = Str("Category")
        /\ EntitiesOf(last[t].self) = {Fn("Post")}
        /\ last[t].out = Return(Fn("Post"))

\* C2: when the class is registered without an entity reference,
\* getCustomRepositoryTarget returns undefined without throwing, and
\* repository, treeRepository and createQueryBuilder on an instance throw
\* CustomRepositoryDoesNotHaveEntityError carrying the instance's class.
C2_NoEntityFails ==
    \A t \in Tasks :
        LET c == last[t]
        IN  /\ (c.op = "getCustomRepositoryTarget" /\ EntitiesOf(c.self) = {Undefined})
                => c.out = Return(Undefined)
            /\ (c.op \in SelfOps /\ EntitiesOf(c.self) = {Undefined})
                => c.out = Throw("CustomRepositoryDoesNotHaveEntityError",
                                 ClassIdentity(c.self))

\* C2 witness: createQueryBuilder on an instance of a class registered
\* without entity threw the error naming the class.
C2_Witness ==
    \E t \in Tasks :
        /\ last[t].op = "createQueryBuilder"
        /\ last[t].alias = "p"
        /\ EntitiesOf(last[t].self) = {Undefined}
        /\ last[t].out = Throw("CustomRepositoryDoesNotHaveEntityError",
                               Fn("CustomPostRepo"))

\* C3: when the class has no registration at all, getCustomRepositoryTarget
\* and each of repository, treeRepository and createQueryBuilder throw
\* CustomRepositoryNotFoundError: not the no-entity error, and no value is
\* returned.
C3_UnregisteredFails ==
    \A t \in Tasks :
        LET c == last[t]
        IN  (c.op \in SelfOps \cup {"getCustomRepositoryTarget"} /\ ~Registered(c.self))
                => NotFoundError(c.out)

\* C3 witness: treeRepository on an instance of an unregistered class threw
\* while other classes were registered.
C3_Witness ==
    \E t \in Tasks :
        /\ last[t].op = "treeRepository"
        /\ ~Registered(last[t].self)
        /\ Len(entityRepositories) = 2
        /\ NotFoundError(last[t].out)

\* C4 as claimed: the CustomRepositoryNotFoundError of every self operation
\* carries the class of the unregistered repository, the same value in the
\* three operations.
C4_PayloadIsClass ==
    \A t \in Tasks :
        LET c == last[t]
        IN  (c.op \in SelfOps /\ NotFoundError(c.out))
                => c.out.val = ClassIdentity(c.self)

\* C4 amended: the error carries the reference the lookup was made with:
\* the instance itself for repository and treeRepository, the instance's
\* class for createQueryBuilder; in the three operations the class identity
\* that reference stands for is the unregistered class.
C4_PayloadIsLookupArgument ==
    \A t \in Tasks :
        LET c == last[t]
        IN  (c.op \in SelfOps /\ ~Registered(c.self))
                => /\ NotFoundError(c.out)
                   /\ c.out.val = IF c.op = "createQueryBuilder"
                                  THEN ClassIdentity(c.self)
                                  ELSE c.self
                   /\ ClassIdentity(c.out.val) = ClassIdentity(c.self)

\* C4 witness: repository on an instance of an unregistered class threw the
\* error carrying that instance.
C4_Witness ==
    \E t \in Tasks :
        /\ last[t].op = "repository"
        /\ ~Registered(last[t].self)
        /\ NotFoundError(last[t].out)
        /\ last[t].out.val = last[t].self
        /\ last[t].out.val.kind = "obj"

\* C5: getRepositoryFor, getTreeRepositoryFor and createQueryBuilderFor
\* make no lookup in the metadata args storage and return what the manager
\* (and, for the query builder, the handle) returns for the given entity
\* whenever that succeeds, whatever the registration of the caller's class.
C5_ForOpsBypassRegistry ==
    \A t \in Tasks :
        LET c == last[t]
            h == manager_getRepository(c.entity)
            tr == manager_getTreeRepository(c.entity)
        IN  c.op \in ForOps =>
                /\ c.lookups = 0
                /\ (c.op = "getRepositoryFor" /\ ~Threw(h)) => c.out = h
                /\ (c.op = "getTreeRepositoryFor" /\ ~Threw(tr)) => c.out = tr
                /\ (c.op = "createQueryBuilderFor" /\ ~Threw(h) /\ c.alias # "")
                       => c.out = Return([kind |-> "QueryBuilder", target |-> c.entity,
                                          alias |-> c.alias])

\* C5 witness: createQueryBuilderFor(Post, "post") returned the query
\* builder on an instance of a class that has no registration.
C5_Witness ==
    \E t \in Tasks :
        /\ last[t].op = "createQueryBuilderFor"
        /\ ~Registered(last[t].self)
        /\ entityRepositories # <<>>
        /\ last[t].lookups = 0
        /\ last[t].out = Return([kind |-> "QueryBuilder", target |-> Fn("Post"),
                                 alias |-> "post"])

\* the self operation recorded in c handed exactly e to the manager and
\* returned what came back
Delegates(c, e) ==
    LET h == manager_getRepository(e)
    IN  /\ c.op = "repository"
            => c.log = <<Invocation("getRepository", e)>> /\ c.out = h
        /\ c.op = "treeRepository"
            => /\ c.log = <<Invocation("getTreeRepository", e)>>
               /\ c.out = manager_getTreeRepository(e)
        /\ c.op = "createQueryBuilder"
            => IF Threw(h)
               THEN c.log = <<Invocation("getRepository", e)>> /\ c.out = h
               ELSE /\ c.log = <<Invocation("getRepository", e),
                                 Invocation("createQueryBuilder", Str(c.alias))>>
                    /\ c.out = handle_createQueryBuilder(h.val, c.alias)

\* C6 as claimed: for every registration whose entity reference is present,
\* a class or a string, the self operations hand exactly that reference to
\* the manager and return its result.
C6_DelegatesWhenPresent ==
    \A t \in Tasks :
        LET c == last[t]
        IN  c.op \in SelfOps =>
                \A e \in EntitiesOf(c.self) : e # Undefined => Delegates(c, e)

\* C6 amended: for every registration whose entity reference is a class or
\* a non-empty string, repository calls the flat factory with exactly that
\* reference, treeRepository the tree factory, createQueryBuilder the flat
\* factory and then the handle's query builder factory with the unchanged
\* alias, and each returns what it was given back; the empty string counts
\* as no entity reference.
C6_DelegatesWhenTruthy ==
    \A t \in Tasks :
        LET c == last[t]
        IN  c.op \in SelfOps =>
                \A e \in EntitiesOf(c.self) :
                    /\ (e.kind = "fn" \/ (e.kind = "str" /\ e.name # "")) => Delegates(c, e)
                    /\ e = Str("") => NoEntityError(c.out) /\ c.log = <<>>

\* C6 witness: createQueryBuilder("p") on a class registered with the entity
\* name "Category" returned the query builder of that entity for "p".
C6_Witness ==
    \E t \in Tasks :
        /\ last[t].op = "createQueryBuilder"
        /\ EntitiesOf(last[t].self) = {Str("Category")}
        /\ last[t].log = <<Invocation("getRepository", Str("Category")),
                           Invocation("createQueryBuilder", Str("p"))>>
        /\ last[t].out = Return([kind |-> "QueryBuilder", target |-> Str("Category"),
                                 alias |-> "p"])

\* two calls of the same operation by the same class with the same arguments
SameCall(a, b) ==
    /\ a.op # "none"
    /\ a.op = b.op
    /\ ClassIdentity(a.self) = ClassIdentity(b.self)
    /\ a.entity = b.entity
    /\ a.alias = b.alias

\* what a call did, an error that carries the receiver carrying its class
Effect(c) ==
    [out |-> IF c.out.val = c.self THEN [c.out EXCEPT !.val = ClassIdentity(c.self)]
             ELSE c.out,
     lookups |-> c.lookups, log |-> c.log]

DownstreamEntities(c) ==
    IF c.op \in ForOps THEN {c.entity}
    ELSE IF c.op \in SelfOps
    THEN {e \in EntitiesOf(c.self) : e.kind = "fn" \/ (e.kind = "str" /\ e.name # "")}
    ELSE {}

\* C8: when the manager's factory or the handle's query builder factory
\* throws, the operation throws that very error and has invoked each factory
\* once; treeRepository and getTreeRepositoryFor do so for an entity without
\* tree metadata, where the error is the manager's.
C8_DownstreamErrorsPropagate ==
    \A t \in Tasks :
        LET c == last[t]
        IN  \A e \in DownstreamEntities(c) :
                LET h == manager_getRepository(e)
                    tr == manager_getTreeRepository(e)
                IN  /\ (c.op \in {"repository", "getRepositoryFor"} /\ Threw(h))
                        => c.out = h /\ c.log = <<Invocation("getRepository", e)>>
                    /\ (c.op \in {"treeRepository", "getTreeRepositoryFor"} /\ Threw(tr))
                        => c.out = tr /\ c.log = <<Invocation("getTreeRepository", e)>>
                    /\ (c.op \in {"createQueryBuilder", "createQueryBuilderFor"} /\ Threw(h))
                        => c.out = h /\ c.log = <<Invocation("getRepository", e)>>
                    /\ (c.op \in {"createQueryBuilder", "createQueryBuilderFor"}
                        /\ ~Threw(h) /\ c.alias = "")
                        => /\ c.out = Throw("QueryBuilderError", h.val)
                           /\ c.log = <<Invocation("getRepository", e),
                                        Invocation("createQueryBuilder", Str(""))>>

\* C8 witness: getTreeRepositoryFor(Post) threw the manager's error for an
\* entity without tree metadata after one call of the tree factory.
C8_Witness ==
    \E t \in Tasks :
        /\ last[t].op = "getTreeRepositoryFor"
        /\ last[t].entity = Fn("Post")
        /\ last[t].out = Throw("RepositoryNotTreeError", Fn("Post"))
        /\ last[t].log = <<Invocation("getTreeRepository", Fn("Post"))>>

\* C9: a self operation on a class without registration or without usable
\* entity throws, and whenever a self operation throws
\* CustomRepositoryNotFoundError or CustomRepositoryDoesNotHaveEntityError
\* it has made no call on the manager or on a handle.
C9_NoManagerCallOnFailure ==
    \A t \in Tasks :
        LET c == last[t]
        IN  c.op \in SelfOps =>
                /\ (~Registered(c.self) \/ EntitiesOf(c.self) \subseteq {Undefined, Str("")})
                       => Threw(c.out)
                /\ (NotFoundError(c.out) \/ NoEntityError(c.out)) => c.log = <<>>

\* C9 witness: repository on a class registered without entity threw with
\* no call made on the manager.
C9_Witness ==
    \E t \in Tasks :
        /\ last[t].op = "repository"
        /\ EntitiesOf(last[t].self) = {Undefined}
        /\ NoEntityError(last[t].out)
        /\ last[t].log = <<>>

\* C10: the lookup is by the exact class: a class without registration whose
\* superclass is registered, or one of whose subclasses is registered, is
\* not found by getCustomRepositoryTarget nor by any self operation.
C10_NoInheritanceFallback ==
    \A t \in Tasks :
        LET c == last[t]
            related == {Fn(SuperClass(c.self.name))}
                       \cup {Fn(d) : d \in {x \in RepositoryClasses : SuperClass(x) = c.self.name}}
        IN  (/\ c.op \in SelfOps \cup {"getCustomRepositoryTarget"}
             /\ ~Registered(c.self)
             /\ \E r \in related : Registered(r))
                => NotFoundError(c.out)

\* C10 witness: repository on an instance of SubPostRepo, which has no
\* registration, threw although its superclass is registered with Post.
C10_Witness ==
    \E t \in Tasks :
        /\ last[t].op = "repository"
        /\ last[t].self.name = "SubPostRepo"
        /\ ~Registered(last[t].self)
        /\ EntitiesOf(Fn("CustomPostRepo")) = {Fn("Post")}
        /\ NotFoundError(last[t].out)

====
